---- MODULE Spec2Model ----
(***************************************************************************)
(* benchplot.py: column specifications are parsed, every result table is   *)
(* read by get_csv_fields into one PlotLine per column specification, the  *)
(* loading loop of plot_data collects them in a matrix, and the matrix is  *)
(* rendered.  percentile is the order statistic used for the symlog scale. *)
(*                                                                         *)
(* Text is a sequence of one-character strings, so that lower(), split(),  *)
(* rfind(), substring containment and float() are computed, not assumed.   *)
(* A table is the sequence of rows csv.reader yields for a file, each row  *)
(* a sequence of fields.  None is the empty tuple and Some(x) is <<x>>.    *)
(***************************************************************************)
EXTENDS Integers, Sequences, FiniteSets, TLC

VARIABLES
    pc,            \* "main", "load", "reading", "done" or "failed"
    columns_arg,   \* args.columns
    files,         \* the tables named by args.files, in input order
    data_labels_arg, \* args.data_labels (None is the empty text)
    data_labels,   \* plot_data's parameter: get_list_arg(args.data_labels)
    col_specs,     \* result of parse_column_specs
    NUM_STATS,     \* module global, line 38
    HAS_STDDEV,    \* module global, line 37
    fi,            \* position of the loop "for f in files" (1-based)
    ri,            \* rows of files[fi] consumed by "for row in reader"
    plotlines,     \* get_csv_fields' local: None until the header row
    all_plotlines, \* plot_data's matrix: None until the first table
    subplot_count, \* plot_data's local
    xtick_labels,  \* plot_data's parameter (args.xtick_labels, default None)
    ylabel,        \* plot_data's parameter (args.ylabel, default None)
    returned,      \* history: what each get_csv_fields call returned, for which
                   \* file, and the NUM_STATS it ran with
    rendered,      \* what the plotting part of plot_data was given
    values,        \* percentile's list argument (sorted in place)
    percent,       \* percentile's argument, as the numerator over PDen
    result         \* percentile's return value

vars == <<pc, columns_arg, files, data_labels_arg, data_labels, col_specs, NUM_STATS, HAS_STDDEV, fi, ri,
          plotlines, all_plotlines, subplot_count, xtick_labels, ylabel,
          returned, rendered, values, percent, result>>

pctVars == <<values, percent, result>>

None == <<>>
Some(x) == <<x>>

(***************************************************************************)
(* Bounds of the model.                                                    *)
(***************************************************************************)
MaxFiles == 2     \* at most this many input tables in one run
MaxLen == 4       \* percentile: at most this many values
MaxVal == 4       \* percentile: values are drawn from 1..MaxVal
PBits == 2        \* percentile: percent is a multiple of 1/2^PBits

(***************************************************************************)
(* Text primitives of Python used by the program.                          *)
(***************************************************************************)
UpperChars == <<"A","B","C","D","E","F","G","H","I","J","K","L","M",
                "N","O","P","Q","R","S","T","U","V","W","X","Y","Z">>
LowerChars == <<"a","b","c","d","e","f","g","h","i","j","k","l","m",
                "n","o","p","q","r","s","t","u","v","w","x","y","z">>

LowerChar(c) ==
    IF \E i \in 1..Len(UpperChars) : UpperChars[i] = c
    THEN LowerChars[CHOOSE i \in 1..Len(UpperChars) : UpperChars[i] = c]
    ELSE c

\* str.lower()
Lower(s) == [i \in 1..Len(s) |-> LowerChar(s[i])]

\* sub in s
Contains(sub, s) ==
    \E i \in 0..(Len(s) - Len(sub)) : SubSeq(s, i + 1, i + Len(sub)) = sub

\* s.find(c) and s.rfind(c) for a one-character c, 1-based; 0 when absent
Find(s, c) ==
    IF \E i \in 1..Len(s) : s[i] = c
    THEN CHOOSE i \in 1..Len(s) : s[i] = c /\ \A j \in 1..(i - 1) : s[j] # c
    ELSE 0

RFind(s, c) ==
    IF \E i \in 1..Len(s) : s[i] = c
    THEN CHOOSE i \in 1..Len(s) : s[i] = c /\ \A j \in (i + 1)..Len(s) : s[j] # c
    ELSE 0

\* s.split(c) for a one-character separator
RECURSIVE Split(_, _)
Split(s, c) ==
    IF Find(s, c) = 0
    THEN <<s>>
    ELSE <<SubSeq(s, 1, Find(s, c) - 1)>>
         \o Split(SubSeq(s, Find(s, c) + 1, Len(s)), c)

\* re.sub(r'^0+', '', s)
RECURSIVE StripLeadingZeros(_)
StripLeadingZeros(s) ==
    IF s # <<>> /\ Head(s) = "0" THEN StripLeadingZeros(Tail(s)) ELSE s

Digits == <<"0","1","2","3","4","5","6","7","8","9">>

DigitVal(c) == (CHOOSE i \in 1..10 : Digits[i] = c) - 1

\* float(s).  The fields of the modelled tables are unsigned decimal
\* integers, the empty string or text that is no number; float() accepts
\* the first and raises ValueError for the other two.
IsFloat(s) == s # <<>> /\ \A i \in 1..Len(s) : \E d \in 1..10 : Digits[d] = s[i]

RECURSIVE Float(_)
Float(s) ==
    IF s = <<>> THEN 0 ELSE 10 * Float(SubSeq(s, 1, Len(s) - 1)) + DigitVal(s[Len(s)])

(***************************************************************************)
(* Lines 21-41: the column constants.                                      *)
(***************************************************************************)
COL_ALL == <<"a","l","l">>
COL_TIME == <<"t","i","m","e">>
COL_MEMORY == <<"m","e","m","o","r","y">>
COL_CPU == <<"c","p","u">>
COL_MEAN == <<"m","e","a","n">>
COL_MEDIAN == <<"m","e","d","i","a","n">>
COL_MIN == <<"m","i","n">>
COL_STDDEV == <<"s","t","d","d","e","v">>

COL_BENCHMARK_NAME_OFFSET == 0
COL_TIME_OFFSET == 1
COL_MEMORY_OFFSET == 5
COL_CPU_OFFSET == 9

OFFSET_STATS(stat) ==
    CASE stat = COL_MEAN -> 0
      [] stat = COL_MEDIAN -> 1
      [] stat = COL_MIN -> 2
      [] stat = COL_STDDEV -> 3

OFFSET_MEASUREMENTS(measurement) ==
    CASE measurement = COL_ALL -> 0
      [] measurement = COL_TIME -> 0
      [] measurement = COL_MEMORY -> 1
      [] measurement = COL_CPU -> 2

VALID_MEASUREMENTS == <<COL_TIME, COL_MEMORY, COL_CPU>>
VALID_STATS == <<COL_MEAN, COL_MEDIAN, COL_MIN>>

InList(x, list) == \E i \in 1..Len(list) : list[i] = x

(***************************************************************************)
(* ColSpec (lines 70-89).  The constructor exits with an error for an      *)
(* invalid measurement or statistic.                                       *)
(***************************************************************************)
ColSpecValid(measurement, stat) ==
    /\ (InList(measurement, VALID_MEASUREMENTS) \/ measurement = COL_ALL)
    /\ InList(stat, VALID_STATS)

ColSpec(measurement, stat) == [measurement |-> measurement, stat |-> stat]

\* A plausible slip: the fixed block offsets of lines 33-35, which are those
\* of the layout with a stddev column, used whatever the stride is.
get_index_fixed_offsets(col, num_stats) ==
    (CASE col.measurement = COL_MEMORY -> COL_MEMORY_OFFSET
       [] col.measurement = COL_CPU -> COL_CPU_OFFSET
       [] OTHER -> COL_TIME_OFFSET)
    + OFFSET_STATS(col.stat)

\* ColSpec.get_index, reading the global NUM_STATS (0-based field position)
get_index(col, num_stats) ==
    (1 + num_stats * OFFSET_MEASUREMENTS(col.measurement)) + OFFSET_STATS(col.stat)

(***************************************************************************)
(* get_list_arg and parse_column_specs (lines 350-370).                    *)
(***************************************************************************)
get_list_arg(arg) == IF arg = <<>> THEN None ELSE Some(Split(arg, ","))

\* The ColSpec a column token denotes, and whether its constructor accepts it
TokenParts(column) ==
    IF Contains(<<":">>, column)
    THEN <<Split(column, ":")[1], Split(column, ":")[2]>>
    ELSE <<column, COL_MEAN>>

\* The loop of lines 357-365 from position i with ret built so far
RECURSIVE ParseLoop(_, _, _)
ParseLoop(columns, i, ret) ==
    IF i > Len(columns)
    THEN [ok |-> TRUE, ret |-> ret]
    ELSE LET p == TokenParts(columns[i]) IN
         IF ~ColSpecValid(p[1], p[2])
         THEN [ok |-> FALSE, ret |-> ret]
         ELSE IF p[1] = COL_ALL /\ Len(columns) > 1
              THEN [ok |-> FALSE, ret |-> ret]
              ELSE ParseLoop(columns, i + 1, Append(ret, ColSpec(p[1], p[2])))

\* A plausible slip: 'all' is left as it is instead of being expanded.
parse_column_specs_no_expand(arg) ==
    IF get_list_arg(arg) = None
    THEN [ok |-> FALSE, ret |-> <<>>]
    ELSE ParseLoop(get_list_arg(arg)[1], 1, <<>>)

parse_column_specs(arg) ==
    IF get_list_arg(arg) = None
    THEN [ok |-> FALSE, ret |-> <<>>]   \* "for column in None": TypeError
    ELSE LET r == ParseLoop(get_list_arg(arg)[1], 1, <<>>) IN
         IF ~r.ok
         THEN r
         ELSE IF r.ret[Len(r.ret)].measurement = COL_ALL
              THEN [ok |-> TRUE,
                    ret |-> [m \in 1..Len(VALID_MEASUREMENTS) |->
                               ColSpec(VALID_MEASUREMENTS[m], r.ret[Len(r.ret)].stat)]]
              ELSE r

(***************************************************************************)
(* PlotLine (lines 49-67).                                                 *)
(***************************************************************************)
PlotLine(label) ==
    [data |-> <<>>,
     stddev |-> <<>>,
     ylabel |-> label,
     isMean |-> Contains(COL_MEAN, Lower(label)),
     xtick_labels |-> <<>>]

\* Lines 62-64: cut at the last ".", then drop leading zeros
NormalizeLabel(xtick_label) ==
    StripLeadingZeros(
        IF Contains(<<".">>, xtick_label)
        THEN SubSeq(xtick_label, 1, RFind(xtick_label, ".") - 1)
        ELSE xtick_label)

\* A plausible slip: the tick label is stored as read, not normalised.
PlotLine_append_raw_label(plotline, data_value, xtick_label, stddev_value) ==
    [plotline EXCEPT
        !.data = Append(@, data_value),
        !.xtick_labels = Append(@, xtick_label),
        !.stddev = IF stddev_value # None THEN Append(@, stddev_value[1]) ELSE @]

PlotLine_append(plotline, data_value, xtick_label, stddev_value) ==
    [plotline EXCEPT
        !.data = Append(@, data_value),
        !.xtick_labels = Append(@, NormalizeLabel(xtick_label)),
        !.stddev = IF stddev_value # None THEN Append(@, stddev_value[1]) ELSE @]

(***************************************************************************)
(* get_csv_fields (lines 92-137), one row of the reader at a time.         *)
(***************************************************************************)
\* Lines 109-113: some header cell contains 'stddev', whatever its case
HeaderHasStddev(header) ==
    \E i \in 1..Len(header) : Contains(COL_STDDEV, Lower(header[i]))

\* Line 118, negated: the header cell names the measurement and the statistic
HeaderCellMatches(col, label) ==
    /\ Contains(col.measurement, Lower(label))
    /\ Contains(col.stat, Lower(label))

\* Lines 115-122 from column specification i on, with the plotlines built so
\* far.  row[k] of the source is row[k + 1] here; an index past the end of
\* the row raises IndexError.
RECURSIVE HeaderLoop(_, _, _, _, _)
HeaderLoop(specs, row, i, lines, num_stats) ==
    IF i > Len(specs)
    THEN [ok |-> TRUE, lines |-> lines]
    ELSE LET k == get_index(specs[i], num_stats) IN
         IF k >= Len(row)
         THEN [ok |-> FALSE, lines |-> lines]
         ELSE IF ~HeaderCellMatches(specs[i], row[k + 1])
              THEN [ok |-> FALSE, lines |-> lines]
              ELSE HeaderLoop(specs, row, i + 1,
                              Append(lines, PlotLine(row[k + 1])), num_stats)

\* Lines 130-134: the stddev value handed to PlotLine.append, or the
\* ValueError of float()
StddevOf(plotline, row, k, has_stddev) ==
    IF plotline.isMean /\ k + OFFSET_STATS(COL_STDDEV) < Len(row) /\ has_stddev
    THEN IF IsFloat(row[k + OFFSET_STATS(COL_STDDEV) + 1])
         THEN [ok |-> TRUE, val |-> Some(Float(row[k + OFFSET_STATS(COL_STDDEV) + 1]))]
         ELSE [ok |-> FALSE, val |-> None]
    ELSE [ok |-> TRUE, val |-> None]

\* Lines 126-135 from column specification i on
RECURSIVE RowLoop(_, _, _, _, _, _)
RowLoop(specs, row, i, lines, num_stats, has_stddev) ==
    IF i > Len(specs) \/ i > Len(lines)
    THEN [ok |-> TRUE, lines |-> lines]
    ELSE LET k == get_index(specs[i], num_stats) IN
         IF k >= Len(row)
         THEN [ok |-> FALSE, lines |-> lines]
         ELSE IF row[k + 1] = <<>>
              THEN RowLoop(specs, row, i + 1, lines, num_stats, has_stddev)
              ELSE IF ~IsFloat(row[k + 1])
                   THEN [ok |-> FALSE, lines |-> lines]
                   ELSE LET sd == StddevOf(lines[i], row, k, has_stddev) IN
                        IF ~sd.ok
                        THEN [ok |-> FALSE, lines |-> lines]
                        ELSE RowLoop(specs, row, i + 1,
                                     [lines EXCEPT ![i] =
                                         PlotLine_append(@, Float(row[k + 1]),
                                             row[COL_BENCHMARK_NAME_OFFSET + 1], sd.val)],
                                     num_stats, has_stddev)

(***************************************************************************)
(* The loading loop of plot_data (lines 182-196).                          *)
(***************************************************************************)
\* A plausible slip: the collection is appended as one more row.
AggregateAsRow(matrix, lines) ==
    IF matrix = None
    THEN Some([i \in 1..Len(lines) |-> <<lines[i]>>])
    ELSE Some(Append(matrix[1], lines))

\* Lines 187-196: the matrix after one more collection
Aggregate(matrix, lines) ==
    IF matrix = None
    THEN Some([i \in 1..Len(lines) |-> <<lines[i]>>])
    ELSE Some([i \in 1..Len(matrix[1]) |->
                  IF i <= Len(lines)
                  THEN Append(matrix[1][i], lines[i])
                  ELSE matrix[1][i]])

\* A plausible slip: the loop stops one table early.
MoreFilesOffByOne(list, i) == i < Len(list)

\* "for f in files" has a next table
MoreFiles(list, i) == i <= Len(list)

(***************************************************************************)
(* percentile (lines 140-158).  percent is the numerator p of p / PDen and *)
(* a number is the fraction num / den, so that the arithmetic is exact.    *)
(***************************************************************************)
PDen == 2 ^ PBits

RECURSIVE Insert(_, _)
Insert(s, x) ==
    IF s = <<>> THEN <<x>>
    ELSE IF x < Head(s) THEN <<x>> \o s
    ELSE <<Head(s)>> \o Insert(Tail(s), x)

\* values.sort()
RECURSIVE Sort(_)
Sort(s) == IF s = <<>> THEN <<>> ELSE Insert(Sort(SubSeq(s, 1, Len(s) - 1)), s[Len(s)])

\* A plausible slip: the two interpolation weights exchanged.
percentile_swapped(vals, p) ==
    IF vals = <<>>
    THEN None
    ELSE LET s == Sort(vals)
             k == (Len(s) - 1) * p
             f == k \div PDen
             c == IF k % PDen = 0 THEN f ELSE f + 1
         IN  IF f = c
             THEN Some([num |-> s[f + 1], den |-> 1])
             ELSE Some([num |-> s[f + 1] * (k - f * PDen) + s[c + 1] * (c * PDen - k),
                        den |-> PDen])

\* The value percentile returns: k here is PDen times the k of line 151
percentile(vals, p) ==
    IF vals = <<>>
    THEN None
    ELSE LET s == Sort(vals)
             k == (Len(s) - 1) * p
             f == k \div PDen
             c == IF k % PDen = 0 THEN f ELSE f + 1
         IN  IF f = c
             THEN Some([num |-> s[f + 1], den |-> 1])
             ELSE Some([num |-> s[f + 1] * (c * PDen - k) + s[c + 1] * (k - f * PDen),
                        den |-> PDen])

(***************************************************************************)
(* The inputs of the model: texts of args.columns, and the tables that the *)
(* files named by args.files hold.                                         *)
(***************************************************************************)
Colon == <<":">>
Comma == <<",">>

ColumnsMenu ==
    { COL_ALL,
      COL_ALL \o Colon \o COL_MEAN,
      COL_ALL \o Colon \o COL_MEDIAN,
      COL_ALL \o Colon \o COL_MIN,
      COL_TIME,
      COL_MEMORY \o Colon \o COL_MEDIAN,
      COL_CPU \o Colon \o COL_MEAN,
      COL_TIME \o Comma \o COL_MEMORY,
      COL_TIME \o Colon \o COL_MIN \o Comma \o COL_CPU,
      COL_ALL \o Comma \o COL_TIME,
      COL_TIME \o Comma \o COL_ALL \o Colon \o COL_MIN,
      <<"f","o","o">>,
      COL_TIME \o Colon \o <<"m","a","x">>,
      COL_ALL \o Colon \o COL_STDDEV,
      <<>> }

\* args.data_labels: the default None, or "a,b"
DataLabelsMenu == { <<>>, <<"a", ",", "b">> }

Upper(s) ==
    [i \in 1..Len(s) |->
        IF \E j \in 1..Len(LowerChars) : LowerChars[j] = s[i]
        THEN UpperChars[CHOOSE j \in 1..Len(LowerChars) : LowerChars[j] = s[i]]
        ELSE s[i]]

Cell(measurement, stat) == measurement \o <<" ">> \o stat
Block3(m) == <<Cell(m, COL_MEAN), Cell(m, COL_MEDIAN), Cell(m, COL_MIN)>>
Block4(m) == Block3(m) \o <<Cell(m, COL_STDDEV)>>
NameCell == <<"n","a","m","e">>

Header3 == <<NameCell>> \o Block3(COL_TIME) \o Block3(COL_MEMORY) \o Block3(COL_CPU)
Header4 == <<NameCell>> \o Block4(COL_TIME) \o Block4(COL_MEMORY) \o Block4(COL_CPU)
Header4Upper == [i \in 1..Len(Header4) |-> Upper(Header4[i])]
HeaderSwapped ==
    <<NameCell, Cell(COL_TIME, COL_MEDIAN), Cell(COL_TIME, COL_MEAN), Cell(COL_TIME, COL_MIN)>>
    \o Block3(COL_CPU) \o Block3(COL_MEMORY)
HeaderShort == <<NameCell>> \o Block3(COL_TIME)

D(a) == <<Digits[a + 1]>>
DD(a, b) == <<Digits[a + 1], Digits[b + 1]>>
Empty == <<>>
Q1 == <<"q","1">>
Q2 == <<"q","2">>

TPlain ==
    << Header3,
       <<Q1, DD(1,0), D(9), D(8), DD(2,0), DD(1,9), DD(1,8), DD(3,0), DD(2,9), DD(2,8)>>,
       <<Q2, DD(1,1), D(7), D(6), DD(2,1), DD(1,7), DD(1,6), DD(3,1), DD(2,7), DD(2,6)>> >>

TStd ==
    << Header4Upper,
       <<Q1, DD(1,0), D(9), D(8), D(2), DD(2,0), DD(1,9), DD(1,8), D(3),
             DD(3,0), DD(2,9), DD(2,8), D(4)>>,
       <<Q2, DD(1,1), D(7), D(6), D(1), DD(2,1), DD(1,7), DD(1,6), D(5),
             DD(3,1), DD(2,7), DD(2,6), D(6)>> >>

TStdEmpty ==
    << Header4,
       <<Q1, Empty, D(9), D(8), Empty, DD(2,0), DD(1,9), DD(1,8), D(3),
             DD(3,0), DD(2,9), DD(2,8), D(4)>>,
       <<Q2, Empty, D(7), D(6), Empty, DD(2,1), DD(1,7), DD(1,6), Empty,
             DD(3,1), DD(2,7), DD(2,6), D(6)>> >>

THole ==
    << Header3,
       <<Q1, Empty, D(9), D(8), DD(2,0), DD(1,9), DD(1,8), DD(3,0), DD(2,9), DD(2,8)>>,
       <<Q2, DD(1,1), D(7), D(6), DD(2,1), DD(1,7), DD(1,6), DD(3,1), DD(2,7), DD(2,6)>> >>

TBadHeader ==
    << HeaderSwapped,
       <<Q1, DD(1,0), D(9), D(8), DD(2,0), DD(1,9), DD(1,8), DD(3,0), DD(2,9), DD(2,8)>> >>

TBadValue ==
    << Header3,
       <<Q1, DD(1,0), D(9), D(8), DD(2,0), DD(1,9), DD(1,8), DD(3,0), DD(2,9), DD(2,8)>>,
       <<Q2, <<"x">>, D(7), D(6), DD(2,1), DD(1,7), DD(1,6), DD(3,1), DD(2,7), DD(2,6)>> >>

TBlank ==
    << <<>>,
       Header3,
       <<>>,
       << <<"0","0","7",".","f","i","n","a","l">>,
          DD(1,0), D(9), D(8), DD(2,0), DD(1,9), DD(1,8), DD(3,0), DD(2,9), DD(2,8)>>,
       << <<"1",".","2",".","3">>,
          DD(1,1), D(7), D(6), DD(2,1), DD(1,7), DD(1,6), DD(3,1), DD(2,7), DD(2,6)>> >>

TEmpty == <<>>

TShort ==
    << HeaderShort,
       <<Q1, DD(1,0), D(9), D(8)>>,
       <<Q2, DD(2,0), DD(1,9), DD(1,8)>> >>

FileNames ==
    {"plain.csv", "std.csv", "stdempty.csv", "hole.csv", "badheader.csv",
     "badvalue.csv", "blank.csv", "empty.csv", "short.csv"}

\* The rows csv.reader yields for the file
Content(f) ==
    CASE f = "plain.csv" -> TPlain
      [] f = "std.csv" -> TStd
      [] f = "stdempty.csv" -> TStdEmpty
      [] f = "hole.csv" -> THole
      [] f = "badheader.csv" -> TBadHeader
      [] f = "badvalue.csv" -> TBadValue
      [] f = "blank.csv" -> TBlank
      [] f = "empty.csv" -> TEmpty
      [] f = "short.csv" -> TShort

SeqsUpTo(S, n) == UNION {[1..m -> S] : m \in 0..n}

(***************************************************************************)
(* The run: __main__ (lines 372-388) and plot_data (lines 161-206).        *)
(***************************************************************************)
Init ==
    /\ pc = "main"
    /\ columns_arg \in ColumnsMenu
    /\ files \in (SeqsUpTo(FileNames, MaxFiles) \ {<<>>})
    /\ data_labels_arg \in DataLabelsMenu
    /\ data_labels = None
    /\ col_specs = <<>>
    /\ NUM_STATS = 3
    /\ HAS_STDDEV = FALSE
    /\ fi = 1
    /\ ri = 0
    /\ plotlines = None
    /\ all_plotlines = None
    /\ subplot_count = 1
    /\ xtick_labels = None
    /\ ylabel = None
    /\ returned = <<>>
    /\ rendered = None
    /\ values = <<>>
    /\ percent = 0
    /\ result = None

Table == Content(files[fi])
Row == Table[ri + 1]

\* Lines 378-379: parse_column_specs(args.columns) and
\* get_list_arg(args.data_labels), before plot_data is entered
ParseArgs ==
    /\ pc = "main"
    /\ LET r == parse_column_specs(columns_arg) IN
         /\ pc' = IF r.ok THEN "load" ELSE "failed"
         /\ col_specs' = IF r.ok THEN r.ret ELSE <<>>
         /\ data_labels' = IF r.ok THEN get_list_arg(data_labels_arg) ELSE None
    /\ UNCHANGED <<data_labels_arg, columns_arg, files, NUM_STATS, HAS_STDDEV, fi, ri, plotlines,
                   all_plotlines, subplot_count, xtick_labels, ylabel, returned,
                   rendered>>
    /\ UNCHANGED pctVars

\* Lines 185-186 and 98-101: the next table is opened
OpenFile ==
    /\ pc = "load"
    /\ MoreFiles(files, fi)
    /\ pc' = "reading"
    /\ plotlines' = None
    /\ ri' = 0
    /\ UNCHANGED <<data_labels_arg, data_labels, columns_arg, files, col_specs, NUM_STATS, HAS_STDDEV, fi,
                   all_plotlines, subplot_count, xtick_labels, ylabel, returned,
                   rendered>>
    /\ UNCHANGED pctVars

\* Lines 103-104: an empty row is skipped
ReadBlankRow ==
    /\ pc = "reading"
    /\ ri < Len(Table)
    /\ Row = <<>>
    /\ ri' = ri + 1
    /\ UNCHANGED <<pc, data_labels_arg, data_labels, columns_arg, files, col_specs, NUM_STATS, HAS_STDDEV, fi,
                   plotlines, all_plotlines, subplot_count, xtick_labels, ylabel,
                   returned, rendered>>
    /\ UNCHANGED pctVars

\* Lines 106-123: the first non-empty row is the header
ReadHeaderRow ==
    /\ pc = "reading"
    /\ ri < Len(Table)
    /\ Row # <<>>
    /\ plotlines = None
    /\ NUM_STATS' = IF HeaderHasStddev(Row) THEN 4 ELSE NUM_STATS
    /\ HAS_STDDEV' = IF HeaderHasStddev(Row) THEN TRUE ELSE HAS_STDDEV
    /\ LET r == HeaderLoop(col_specs, Row, 1, <<>>,
                           IF HeaderHasStddev(Row) THEN 4 ELSE NUM_STATS) IN
         /\ plotlines' = Some(r.lines)
         /\ pc' = IF r.ok THEN "reading" ELSE "failed"
         /\ ri' = IF r.ok THEN ri + 1 ELSE ri
    /\ UNCHANGED <<data_labels_arg, data_labels, columns_arg, files, col_specs, fi, all_plotlines,
                   subplot_count, xtick_labels, ylabel, returned, rendered>>
    /\ UNCHANGED pctVars

\* Lines 125-135: a data row
ReadDataRow ==
    /\ pc = "reading"
    /\ ri < Len(Table)
    /\ Row # <<>>
    /\ plotlines # None
    /\ LET r == RowLoop(col_specs, Row, 1, plotlines[1], NUM_STATS, HAS_STDDEV) IN
         /\ plotlines' = Some(r.lines)
         /\ pc' = IF r.ok THEN "reading" ELSE "failed"
         /\ ri' = IF r.ok THEN ri + 1 ELSE ri
    /\ UNCHANGED <<data_labels_arg, data_labels, columns_arg, files, col_specs, NUM_STATS, HAS_STDDEV, fi,
                   all_plotlines, subplot_count, xtick_labels, ylabel, returned,
                   rendered>>
    /\ UNCHANGED pctVars

\* Line 137 and lines 187-196: get_csv_fields returns and the loop body of
\* plot_data takes the collection.  A file without a non-empty row returns
\* None, and iterating None raises TypeError.
ReturnPlotlines ==
    /\ pc = "reading"
    /\ ri = Len(Table)
    /\ returned' = Append(returned, [file |-> fi, plotlines |-> plotlines,
                                     num_stats |-> NUM_STATS])
    /\ IF plotlines = None
       THEN /\ pc' = "failed"
            /\ UNCHANGED <<fi, all_plotlines, subplot_count, xtick_labels, ylabel>>
       ELSE /\ pc' = "load"
            /\ fi' = fi + 1
            /\ all_plotlines' = Aggregate(all_plotlines, plotlines[1])
            /\ subplot_count' = IF all_plotlines = None
                                THEN Len(plotlines[1]) ELSE subplot_count
            /\ xtick_labels' = IF all_plotlines = None /\ xtick_labels = None
                               THEN Some(plotlines[1][1].xtick_labels)
                               ELSE xtick_labels
            /\ ylabel' = IF all_plotlines = None /\ ylabel = None
                         THEN Some(plotlines[1][1].ylabel)
                         ELSE ylabel
    /\ UNCHANGED <<data_labels_arg, data_labels, columns_arg, files, col_specs, NUM_STATS, HAS_STDDEV, ri,
                   plotlines, rendered>>
    /\ UNCHANGED pctVars

\* Lines 198-295: the loop is over and the matrix is plotted.  Line 199,
\* n = len(data_labels), comes before the first plotting call (line 206) and
\* raises TypeError when no --data-labels were given.
Render ==
    /\ pc = "load"
    /\ ~MoreFiles(files, fi)
    /\ IF data_labels = None
       THEN /\ pc' = "failed"
            /\ rendered' = rendered
       ELSE /\ pc' = "done"
            /\ rendered' = all_plotlines
    /\ UNCHANGED <<data_labels_arg, data_labels, columns_arg, files, col_specs, NUM_STATS, HAS_STDDEV, fi, ri,
                   plotlines, all_plotlines, subplot_count, xtick_labels, ylabel,
                   returned>>
    /\ UNCHANGED pctVars

Next ==
    \/ ParseArgs
    \/ OpenFile
    \/ ReadBlankRow
    \/ ReadHeaderRow
    \/ ReadDataRow
    \/ ReturnPlotlines
    \/ Render

Spec == Init /\ [][Next]_vars

(***************************************************************************)
(* percentile called on its own, on every list and percent of the bounds.  *)
(***************************************************************************)
InitPercentile ==
    /\ pc = "call"
    /\ values \in SeqsUpTo(1..MaxVal, MaxLen)
    /\ percent \in 0..PDen
    /\ result = None
    /\ columns_arg = <<>>
    /\ files = <<>>
    /\ data_labels_arg = <<>>
    /\ data_labels = None
    /\ col_specs = <<>>
    /\ NUM_STATS = 3
    /\ HAS_STDDEV = FALSE
    /\ fi = 1
    /\ ri = 0
    /\ plotlines = None
    /\ all_plotlines = None
    /\ subplot_count = 1
    /\ xtick_labels = None
    /\ ylabel = None
    /\ returned = <<>>
    /\ rendered = None

\* percentile(values, percent): the list is sorted in place.  The argument
\* as it was passed is kept in returned.
Percentile ==
    /\ pc = "call"
    /\ pc' = "return"
    /\ returned' = values
    /\ values' = Sort(values)
    /\ result' = percentile(values, percent)
    /\ UNCHANGED <<data_labels_arg, data_labels, columns_arg, files, col_specs,
                   NUM_STATS, HAS_STDDEV, fi, ri, plotlines, all_plotlines,
                   subplot_count, xtick_labels, ylabel, rendered, percent>>

NextPercentile == Percentile

SpecPercentile == InitPercentile /\ [][NextPercentile]_vars

(***************************************************************************)
(* Vocabulary of the properties.                                           *)
(***************************************************************************)
\* Position of the header row of a table (0 when it has no non-empty row)
HeaderPos(table) ==
    IF \E n \in 1..Len(table) : table[n] # <<>>
    THEN CHOOSE n \in 1..Len(table) :
             table[n] # <<>> /\ \A k \in 1..(n - 1) : table[k] = <<>>
    ELSE 0

HeaderOf(table) == table[HeaderPos(table)]

\* The stride the header of a table calls for
OwnStride(header) == IF HeaderHasStddev(header) THEN 4 ELSE 3

\* The data rows among the first n rows of a table, in row order
RECURSIVE DataRows(_, _)
DataRows(table, n) ==
    IF n <= HeaderPos(table) \/ HeaderPos(table) = 0
    THEN <<>>
    ELSE IF table[n] = <<>>
         THEN DataRows(table, n - 1)
         ELSE Append(DataRows(table, n - 1), table[n])

\* The normalised labels of the rows whose field at 0-based position k is
\* not empty
RECURSIVE LabelsWithField(_, _)
LabelsWithField(rows, k) ==
    IF rows = <<>>
    THEN <<>>
    ELSE IF rows[Len(rows)][k + 1] = <<>>
         THEN LabelsWithField(SubSeq(rows, 1, Len(rows) - 1), k)
         ELSE Append(LabelsWithField(SubSeq(rows, 1, Len(rows) - 1), k),
                     NormalizeLabel(rows[Len(rows)][1]))

\* 0-based index of x in a list that holds it
IndexIn(list, x) == (CHOOSE i \in 1..Len(list) : list[i] = x) - 1

\* A data row is about to be read, the header having been accepted
AtDataRow ==
    /\ pc = "reading"
    /\ plotlines # None
    /\ ri < Len(Table)
    /\ Row # <<>>

\* The header row is about to be read
AtHeaderRow ==
    /\ pc = "reading"
    /\ plotlines = None
    /\ ri < Len(Table)
    /\ Row # <<>>

(***************************************************************************)
(* C1.  The stride a table is resolved with is 4 exactly if the table's    *)
(* own header has a cell containing 'stddev', and 3 otherwise, also for a  *)
(* table read after one that has a stddev column.                          *)
(* The code keeps NUM_STATS in a module global that is set to 4 and never  *)
(* reset, so this is violated by a table without stddev that follows one   *)
(* with it.                                                                *)
(***************************************************************************)
C1_StridePerTable ==
    (pc = "reading" /\ plotlines # None) =>
        NUM_STATS = OwnStride(HeaderOf(Table))

(***************************************************************************)
(* C2.  Reading a data row attaches a stddev to a series only if the       *)
(* series is mean-type, the table's own layout has a stddev slot and the   *)
(* slot's field in the row is not empty; otherwise the row is appended     *)
(* without stddev and the read does not fail.                              *)
(* Violated: an empty stddev slot is handed to float(), and HAS_STDDEV     *)
(* stays set for later tables.                                             *)
(***************************************************************************)
C2_Attaches(i) ==
    LET k == get_index(col_specs[i], OwnStride(HeaderOf(Table))) IN
    /\ plotlines[1][i].isMean
    /\ OwnStride(HeaderOf(Table)) = 4
    /\ k + 3 < Len(Row)
    /\ Row[k + 4] # <<>>

C2_RowReadable ==
    \A i \in 1..Len(col_specs) :
        LET k == get_index(col_specs[i], OwnStride(HeaderOf(Table))) IN
        /\ k < Len(Row)
        /\ (Row[k + 1] = <<>> \/ IsFloat(Row[k + 1]))
        /\ (Row[k + 1] # <<>> /\ C2_Attaches(i) => IsFloat(Row[k + 4]))

C2_StddevOnlyWhenPresent ==
    [][ AtDataRow =>
          /\ \A i \in 1..Len(col_specs) :
                Len(plotlines'[1][i].stddev) > Len(plotlines[1][i].stddev)
                    => C2_Attaches(i)
          /\ (C2_RowReadable => pc' # "failed")
      ]_vars

(***************************************************************************)
(* C3.  Reading the header checks, for each requested ColumnSpec, the      *)
(* header cell at the position computed under that table's own stride: the *)
(* header is accepted if every such cell contains the measurement and the  *)
(* statistic name (whatever the case), and the read fails otherwise.       *)
(* Violated because of C1: after a table with stddev the cell checked is   *)
(* the one at the stride-4 position.                                       *)
(***************************************************************************)
C3_HeaderOk ==
    \A i \in 1..Len(col_specs) :
        LET k == get_index(col_specs[i], OwnStride(Row)) IN
        /\ k < Len(Row)
        /\ Contains(col_specs[i].measurement, Lower(Row[k + 1]))
        /\ Contains(col_specs[i].stat, Lower(Row[k + 1]))

C3_HeaderValidation ==
    [][ AtHeaderRow =>
          IF C3_HeaderOk
          THEN /\ pc' = "reading"
               /\ plotlines' # None
               /\ Len(plotlines'[1]) = Len(col_specs)
          ELSE /\ pc' = "failed"
               /\ returned' = returned
      ]_vars

(***************************************************************************)
(* C4.  For a ColumnSpec with measurement number m in (time, memory, cpu)  *)
(* and statistic number s in (mean, median, min), the field position under *)
(* stride 3 or 4 is 1 + stride * m + s: going from stride 3 to 4 moves the *)
(* positions of measurement m by m and keeps the order of the statistics   *)
(* of a measurement; the header cell a series is labelled with is the one  *)
(* at that position.                                                       *)
(***************************************************************************)
C4_FieldPosition ==
    \A i \in 1..Len(col_specs) :
        LET col == col_specs[i] IN
        /\ InList(col.measurement, VALID_MEASUREMENTS)
        /\ InList(col.stat, VALID_STATS)
        /\ LET m == IndexIn(<<COL_TIME, COL_MEMORY, COL_CPU>>, col.measurement)
               s == IndexIn(<<COL_MEAN, COL_MEDIAN, COL_MIN>>, col.stat)
           IN  /\ \A stride \in {3, 4} : get_index(col, stride) = 1 + stride * m + s
               /\ get_index(col, 4) - get_index(col, 3) = m
               /\ \A t \in 1..Len(VALID_STATS) : \A stride \in {3, 4} :
                     get_index(ColSpec(col.measurement, VALID_STATS[t]), stride)
                       - get_index(col, stride) = (t - 1) - s
               /\ (pc = "reading" /\ plotlines # None =>
                     plotlines[1][i].ylabel
                       = HeaderOf(Table)[(1 + NUM_STATS * m + s) + 1])

C4_Witness ==
    /\ pc = "reading"
    /\ plotlines # None
    /\ NUM_STATS = 4
    /\ HeaderHasStddev(HeaderOf(Table))
    /\ Len(col_specs) = 3
    /\ col_specs[3] = ColSpec(COL_CPU, COL_MIN)
    /\ plotlines[1][3].ylabel = Upper(Cell(COL_CPU, COL_MIN))

(***************************************************************************)
(* C5.  A spec list that is the single token 'all' or 'all:<statistic>'    *)
(* parses to exactly three ColumnSpecs, time, memory, cpu in this order,   *)
(* each with the requested statistic (mean when none is given), and no     *)
(* parsed list holds a ColumnSpec whose measurement is 'all'.              *)
(***************************************************************************)
C5_Expanded(stat) ==
    << [measurement |-> <<"t","i","m","e">>, stat |-> stat],
       [measurement |-> <<"m","e","m","o","r","y">>, stat |-> stat],
       [measurement |-> <<"c","p","u">>, stat |-> stat] >>

C5_AllExpansion ==
    pc # "main" =>
        /\ (columns_arg = <<"a","l","l">> => col_specs = C5_Expanded(<<"m","e","a","n">>))
        /\ \A stat \in {<<"m","e","a","n">>, <<"m","e","d","i","a","n">>, <<"m","i","n">>} :
              columns_arg = <<"a","l","l",":">> \o stat => col_specs = C5_Expanded(stat)
        /\ \A i \in 1..Len(col_specs) : col_specs[i].measurement # <<"a","l","l">>

C5_Witness ==
    /\ pc = "load"
    /\ columns_arg = <<"a","l","l",":","m","i","n">>
    /\ Len(col_specs) = 3
    /\ col_specs[2] = [measurement |-> COL_MEMORY, stat |-> COL_MIN]

(***************************************************************************)
(* C6, as claimed.  All series of the collection returned by one read of   *)
(* one table share the same x-tick-label sequence, that of the table's     *)
(* data rows in row order, and the same number of data points.             *)
(***************************************************************************)
C6_SharedLabels ==
    \A j \in 1..Len(returned) :
        returned[j].plotlines # None =>
            LET lines == returned[j].plotlines[1]
                table == Content(files[returned[j].file])
                rows == DataRows(table, Len(table))
            IN  \A i \in 1..Len(lines) :
                  /\ lines[i].xtick_labels
                       = [r \in 1..Len(rows) |-> NormalizeLabel(rows[r][1])]
                  /\ Len(lines[i].data) = Len(rows)
                  /\ \A h \in 1..Len(lines) :
                        /\ lines[h].xtick_labels = lines[i].xtick_labels
                        /\ Len(lines[h].data) = Len(lines[i].data)

(***************************************************************************)
(* C6, amended.  Each series of the collection returned by one read holds  *)
(* exactly the data rows whose field at the series' resolved position is   *)
(* not empty, in row order: its x-tick labels are the normalised first     *)
(* cells of those rows and it has one data point per label.  The series of *)
(* a collection share their labels and their length when no data row has   *)
(* an empty field at a requested position.                                 *)
(***************************************************************************)
C6_NoHoles(rows, stride) ==
    \A r \in 1..Len(rows) : \A i \in 1..Len(col_specs) :
        rows[r][get_index(col_specs[i], stride) + 1] # <<>>

C6_LabelsOfPresentRows ==
    \A j \in 1..Len(returned) :
        returned[j].plotlines # None =>
            LET lines == returned[j].plotlines[1]
                table == Content(files[returned[j].file])
                rows == DataRows(table, Len(table))
                stride == returned[j].num_stats
            IN  /\ Len(lines) = Len(col_specs)
                /\ \A i \in 1..Len(lines) :
                      /\ lines[i].xtick_labels
                           = LabelsWithField(rows, get_index(col_specs[i], stride))
                      /\ Len(lines[i].data) = Len(lines[i].xtick_labels)
                /\ (C6_NoHoles(rows, stride) =>
                      \A i \in 1..Len(lines) :
                          /\ lines[i].xtick_labels
                               = [r \in 1..Len(rows) |-> NormalizeLabel(rows[r][1])]
                          /\ Len(lines[i].data) = Len(rows))

C6_Witness ==
    \E j \in 1..Len(returned) :
        /\ files[returned[j].file] = "hole.csv"
        /\ returned[j].plotlines # None
        /\ Len(returned[j].plotlines[1]) = 3
        /\ returned[j].plotlines[1][1].xtick_labels = << <<"q","2">> >>
        /\ returned[j].plotlines[1][2].xtick_labels = << <<"q","1">>, <<"q","2">> >>

(***************************************************************************)
(* C7.  Reading a data row whose field for one requested ColumnSpec is the *)
(* empty string and whose fields for the other requested ColumnSpecs parse *)
(* does not fail, leaves the series of the empty field as it was and gives *)
(* every other series exactly one more point.                              *)
(* Violated because of C2: the sibling's empty stddev slot makes the read  *)
(* fail.                                                                   *)
(***************************************************************************)
C7_Field(i) == Row[get_index(col_specs[i], NUM_STATS) + 1]

C7_HoleSkipped ==
    [][ (AtDataRow /\ \A i \in 1..Len(col_specs) :
                         get_index(col_specs[i], NUM_STATS) < Len(Row)) =>
          \A i \in 1..Len(col_specs) :
              (C7_Field(i) = <<>>
                 /\ \A h \in 1..Len(col_specs) : h # i => IsFloat(C7_Field(h)))
              => /\ pc' # "failed"
                 /\ plotlines'[1][i] = plotlines[1][i]
                 /\ \A h \in 1..Len(col_specs) : h # i =>
                       /\ Len(plotlines'[1][h].data) = Len(plotlines[1][h].data) + 1
                       /\ Len(plotlines'[1][h].xtick_labels)
                            = Len(plotlines[1][h].xtick_labels) + 1
      ]_vars

(***************************************************************************)
(* C8.  After the collections of N >= 1 tables have been aggregated for K  *)
(* requested ColumnSpecs, the matrix has K rows in the order of the        *)
(* ColumnSpecs, each row holds N series in the order of the tables, and    *)
(* the series at (i, j) is the one read from table j for ColumnSpec i.     *)
(***************************************************************************)
C8_MatrixShape ==
    (pc \in {"load", "done"} /\ fi > 1) =>
        /\ all_plotlines # None
        /\ Len(returned) = fi - 1
        /\ Len(all_plotlines[1]) = Len(col_specs)
        /\ subplot_count = Len(col_specs)
        /\ \A i \in 1..Len(all_plotlines[1]) :
              /\ Len(all_plotlines[1][i]) = fi - 1
              /\ \A j \in 1..Len(all_plotlines[1][i]) :
                    /\ returned[j].file = j
                    /\ all_plotlines[1][i][j] = returned[j].plotlines[1][i]
                    /\ HeaderCellMatches(col_specs[i], all_plotlines[1][i][j].ylabel)

C8_Witness ==
    /\ pc = "done"
    /\ files = <<"blank.csv", "std.csv">>
    /\ Len(col_specs) = 3
    /\ Len(all_plotlines[1]) = 3
    /\ Len(all_plotlines[1][2]) = 2
    /\ all_plotlines[1][2][2].ylabel = Upper(Cell(COL_MEMORY, COL_MEDIAN))
    /\ all_plotlines[1][2][1].xtick_labels = << <<"7">>, <<"1",".","2">> >>

(***************************************************************************)
(* C9.  percentile returns None for an empty list.  For n >= 1 values,     *)
(* with k = (n - 1) * p over the ascending sort, it returns sorted[k] when *)
(* k is an integer and sorted[floor k] * (ceil k - k) + sorted[ceil k] *   *)
(* (k - floor k) otherwise; so percentile([x], p) = x and                  *)
(* percentile([1, 2, 3, 4], 0.5) = 2.5.                                    *)
(* In the specification SpecPercentile, returned is the list as passed and *)
(* values the list after the call.                                         *)
(***************************************************************************)
C9_Ascending(s) == \A i \in 1..(Len(s) - 1) : s[i] <= s[i + 1]

C9_SameElements(s, t) ==
    /\ Len(s) = Len(t)
    /\ \A v \in 1..MaxVal :
          Cardinality({i \in 1..Len(s) : s[i] = v})
            = Cardinality({i \in 1..Len(t) : t[i] = v})

C9_Percentile ==
    pc = "return" =>
        /\ C9_Ascending(values)
        /\ C9_SameElements(values, returned)
        /\ (returned = <<>> <=> result = None)
        /\ (returned # <<>> =>
              LET kk == (Len(values) - 1) * percent    \* k * PDen
                  fl == kk \div PDen
              IN  IF kk % PDen = 0
                  THEN result[1].num = values[fl + 1] * result[1].den
                  ELSE result[1].num * PDen
                         = (values[fl + 1] * ((fl + 1) * PDen - kk)
                            + values[fl + 2] * (kk - fl * PDen)) * result[1].den)
        /\ (Len(returned) = 1 => result[1].num = returned[1] * result[1].den)
        /\ (returned = <<1, 2, 3, 4>> /\ 2 * percent = PDen =>
              2 * result[1].num = 5 * result[1].den)

C9_Witness ==
    /\ pc = "return"
    /\ returned = <<4, 2, 3, 1>>
    /\ values = <<1, 2, 3, 4>>
    /\ 4 * percent = PDen
    /\ 4 * result[1].num = 7 * result[1].den

(***************************************************************************)
(* C10.  Rendering happens only after the column specifications have been  *)
(* parsed and every input table has been read to its end, in input order,  *)
(* without error; after a failure the run takes no further step: no table  *)
(* is read and nothing is rendered.                                        *)
(***************************************************************************)
C10_AllRead ==
    /\ col_specs # <<>>
    /\ Len(returned) = Len(files)
    /\ \A j \in 1..Len(returned) :
          /\ returned[j].file = j
          /\ returned[j].plotlines # None
    /\ all_plotlines # None
    /\ \A i \in 1..Len(all_plotlines[1]) : Len(all_plotlines[1][i]) = Len(files)

C10_FailFast ==
    /\ []((pc = "done" \/ rendered # None) => C10_AllRead)
    /\ [](pc = "failed" => rendered = None)
    /\ [][pc = "failed" => FALSE]_vars
    /\ [][rendered' # rendered => (pc = "load" /\ fi = Len(files) + 1 /\ C10_AllRead)]_vars

C10_Witness ==
    /\ pc = "done"
    /\ rendered # None
    /\ data_labels = Some(<< <<"a">>, <<"b">> >>)
    /\ Len(files) = 2
    /\ files[1] # files[2]
====
